---- MODULE Spec2Model ----
(***************************************************************************)
(* Model of src/src/pages/Index.tsx: the Index component's state, its UI   *)
(* event handlers, the asynchronous handleSend (with makeRequest and the   *)
(* rate-limit retry loop) and the asynchronous onDrop.                     *)
(*                                                                         *)
(* Every action is one run-to-completion segment of JavaScript: the code   *)
(* between two awaits of one handler invocation. The awaits are            *)
(*   fetch(...)                                (pc = "fetch")              *)
(*   response.json()                           (pc = "json")               *)
(*   delay(waitTime)                           (pc = "delay")              *)
(*   file.text()                               (an entry of drops)         *)
(* The endpoint is free: each fetch settles with any of Responses.         *)
(*                                                                         *)
(* A handler closes over the state of the render it was created in, so an  *)
(* invocation of handleSend records the values of input, apiKey, contexts  *)
(* and selectedContext it was invoked with, and keeps using them.          *)
(***************************************************************************)
EXTENDS Integers, Sequences, FiniteSets, TLC

VARIABLES
    messages,         \* useState<Message[]>([])
    contexts,         \* useState<Context[]>([])
    selectedContext,  \* useState<string>("no-context")
    input,            \* useState("")
    isLoading,        \* useState(false)
    apiKey,           \* useState("")
    toasts,           \* every toast({...}) call so far, in order
    now,              \* the value Date.now() returns
    sends,            \* the invocations of handleSend so far, in order
    drops             \* the onDrop invocations awaiting file.text()

vars == <<messages, contexts, selectedContext, input, isLoading, apiKey,
          toasts, now, sends, drops>>

----------------------------------------------------------------------------
(* Bounds of the model *)

\* handleSend invocations (past its first early return) in one behaviour
MaxSends == 2
\* files accepted by the dropzone in one behaviour
MaxFiles == 2
\* milliseconds the clock may advance
MaxClock == 1
\* onDrop invocations in one behaviour
MaxDrops == 2
\* handleSend invocations in one behaviour that starts with documents uploaded
MaxAsks == 1
\* documents dropped in a behaviour of SpecRetries
MaxDocuments == 2

----------------------------------------------------------------------------
(* JavaScript values as far as the handlers look at them *)

JUndef == [t |-> "undefined"]
JNull == [t |-> "null"]
JStr(s) == [t |-> "string", s |-> s]
JObj(f) == [t |-> "object", f |-> f]
JArr(a) == [t |-> "array", a |-> a]

\* v is null or undefined: reading a property of it throws a TypeError
Nullish(v) == v.t \in {"undefined", "null"}

\* !v is false
Truthy(v) == ~Nullish(v) /\ ~(v.t = "string" /\ v.s = "")

\* v[k] of a value that is not nullish
Get(v, k) ==
    IF v.t = "object" /\ k \in DOMAIN v.f THEN v.f[k] ELSE JUndef

\* v[i] (0-based) of a value that is not nullish: the element of an array,
\* the character of a string, the property named by the number of an object
Idx(v, i) ==
    IF v.t = "array"
    THEN IF (i + 1) \in DOMAIN v.a THEN v.a[i + 1] ELSE JUndef
    ELSE IF v.t = "string"
    THEN IF i + 1 <= Len(v.s) THEN JStr(SubSeq(v.s, i + 1, i + 1)) ELSE JUndef
    ELSE Get(v, ToString(i))

\* what an expression comes to: the value it returns or the Error it throws
Thrown(m) == [thrown |-> TRUE, message |-> m, value |-> JUndef]
Returned(v) == [thrown |-> FALSE, message |-> "", value |-> v]

\* the message of the TypeError of ToPrimitive, as V8 words it
ToPrimitiveErrorMessage == "Cannot convert object to primitive value"

\* ToString(v), which new Error(v) applies to its message. A string is
\* itself. An object of a JSON body inherits Object.prototype.toString,
\* which gives "[object Object]", unless it has a member toString of its
\* own: that member is no function, valueOf (its own, no function, or the
\* inherited one, which returns the object) gives no primitive either, and
\* the conversion throws a TypeError. An array is its elements joined by
\* commas, a nullish element giving the empty text and the first element
\* that throws ending the conversion.
RECURSIVE JsString(_)
RECURSIVE JsJoin(_)
JsJoin(a) ==
    IF a = <<>> THEN Returned(JStr(""))
    ELSE LET first == IF Nullish(Head(a)) THEN Returned(JStr(""))
                      ELSE JsString(Head(a))
             rest == JsJoin(Tail(a))
         IN IF first.thrown \/ Len(a) = 1 THEN first
            ELSE IF rest.thrown THEN rest
            ELSE Returned(JStr(first.value.s \o "," \o rest.value.s))

JsString(v) ==
    IF v.t = "string" THEN Returned(v)
    ELSE IF v.t = "object"
    THEN IF "toString" \in DOMAIN v.f THEN Thrown(ToPrimitiveErrorMessage)
         ELSE Returned(JStr("[object Object]"))
    ELSE IF v.t = "array" THEN JsJoin(v.a)
    ELSE Returned(JStr(v.t))

\* the message of the TypeError thrown by reading property k of a nullish v
TypeErrorMessage(v, k) ==
    "Cannot read properties of " \o v.t \o " (reading '" \o k \o "')"

----------------------------------------------------------------------------
(* String.prototype.trim *)

\* The texts of the model are ASCII. These are the ASCII characters among
\* the WhiteSpace and LineTerminator code points that trim strips: space,
\* tab, line feed, carriage return, form feed and line tabulation (U+000B).
\* The others it strips (U+00A0, U+1680, U+2000 to U+200A, U+2028, U+2029,
\* U+202F, U+205F, U+3000, U+FEFF) are no characters of an ASCII text.
WhiteSpace == {" ", "\t", "\n", "\r", "\f", ""}

RECURSIVE TrimStart(_)
TrimStart(s) ==
    IF Len(s) > 0 /\ SubSeq(s, 1, 1) \in WhiteSpace
    THEN TrimStart(SubSeq(s, 2, Len(s)))
    ELSE s

RECURSIVE TrimEnd(_)
TrimEnd(s) ==
    IF Len(s) > 0 /\ SubSeq(s, Len(s), Len(s)) \in WhiteSpace
    THEN TrimEnd(SubSeq(s, 1, Len(s) - 1))
    ELSE s

Trim(s) == TrimEnd(TrimStart(s))

----------------------------------------------------------------------------
(* The types of the component *)

\* interface Message { role; content }
Message(role, content) == [role |-> role, content |-> content]

\* interface Context { id; name; content }
Context(id, name, content) == [id |-> id, name |-> name, content |-> content]

\* the argument of a toast({...}) call; variant is "default" when not given
Toast(title, description, variant) ==
    [title |-> title, description |-> description, variant |-> variant]

NoContext == "no-context"

----------------------------------------------------------------------------
(* makeRequest: the prompt and the request *)

\* contexts.find((ctx) => ctx.id === selectedContext): the index of the first
\* context with that id, 0 when there is none
RECURSIVE FindFrom(_, _, _)
FindFrom(ctxs, id, i) ==
    IF i > Len(ctxs) THEN 0
    ELSE IF ctxs[i].id = id THEN i
    ELSE FindFrom(ctxs, id, i + 1)

Find(ctxs, id) == FindFrom(ctxs, id, 1)

PromptHead ==
    "You are a helpful assistant. Use ONLY the following context to answer the question. If the question cannot be answered using the context, say \"I cannot answer this question based on the provided context.\"\n\nContext:\n"

PromptQuestion == "\n\nQuestion: "

PromptTail == "\n\nAnswer:"

\* the prompt of the previous revision of the page: no restrictive instruction
BuildPromptUnrestricted(ctxs, sel, text) ==
    IF Find(ctxs, sel) # 0
    THEN "Context: " \o ctxs[Find(ctxs, sel)].content
         \o "\n\nUser Question: " \o text
    ELSE text

\* let prompt = input; if (context && selectedContext !== "no-context") ...
BuildPrompt(ctxs, sel, text) ==
    IF Find(ctxs, sel) # 0 /\ sel # NoContext
    THEN PromptHead \o ctxs[Find(ctxs, sel)].content
         \o PromptQuestion \o text \o PromptTail
    ELSE text

\* what one fetch(...) transmits: the key of the URL and the text of the body
Request(key, prompt) == [key |-> key, text |-> prompt]

----------------------------------------------------------------------------
(* The endpoint: what one fetch can settle with *)

\* const maxRetries = 3
maxRetries == 3

JsonBody(v) == [json |-> TRUE, v |-> v, text |-> ""]
\* a body response.json() rejects, by its text
NotJson(text) == [json |-> FALSE, v |-> JUndef, text |-> text]
\* the error page of a gateway
HtmlPage == "<html><body>error</body></html>"

HttpResponse(status, statusText, body) ==
    [kind |-> "http", status |-> status, statusText |-> statusText,
     body |-> body, message |-> ""]
\* fetch itself rejects (DNS, connection, CORS), with a TypeError whose
\* message is the runtime's
NetworkFailure(message) ==
    [kind |-> "reject", status |-> 0, statusText |-> "", body |-> NotJson(""),
     message |-> message]

\* an error body whose message is the JSON value m
ErrorBodyOf(m) == JObj([error |-> JObj([message |-> m])])
ErrorBody(m) == ErrorBodyOf(JStr(m))
\* a JSON object with a member toString: ToString of it throws
UnprintableObject == JObj([toString |-> JStr("x")])
ErrorBodyNoMessage == JObj([error |-> JObj([status |-> JStr("UNAVAILABLE")])])
ReplyBody(text) ==
    JObj([candidates |->
            JArr(<<JObj([content |->
                    JObj([parts |-> JArr(<<JObj([text |-> JStr(text)])>>)])])>>)])
NoCandidatesBody == JObj([promptFeedback |-> JObj([blockReason |-> JStr("SAFETY")])])
EmptyCandidatesBody == JObj([candidates |-> JArr(<<>>)])
\* a candidate cut short: content without parts
NoPartsBody ==
    JObj([candidates |-> JArr(<<JObj([content |-> JObj([role |-> JStr("model")])])>>)])
\* a first part that is no text
NoTextBody ==
    JObj([candidates |->
            JArr(<<JObj([content |->
                    JObj([parts |-> JArr(<<JObj([inlineData |-> JObj([mimeType |-> JStr("image/png")])])>>)])])>>)])

\* What one fetch can settle with. Every call of every send is answered by
\* any one of them.
Responses ==
    << HttpResponse(200, "OK", JsonBody(ReplyBody("pong"))),
       HttpResponse(200, "OK", JsonBody(NoCandidatesBody)),
       HttpResponse(429, "Too Many Requests", JsonBody(ErrorBody("quota"))),
       HttpResponse(429, "Too Many Requests", NotJson(HtmlPage)),
       HttpResponse(500, "Internal Server Error", JsonBody(ErrorBody("boom"))),
       HttpResponse(500, "Internal Server Error", JsonBody(ErrorBody("RATE_LIMIT"))),
       HttpResponse(503, "Service Unavailable", JsonBody(ErrorBodyNoMessage)),
       HttpResponse(502, "Bad Gateway", NotJson(HtmlPage)),
       NetworkFailure("Failed to fetch"),
       HttpResponse(200, "OK", JsonBody(EmptyCandidatesBody)),
       HttpResponse(200, "OK", JsonBody(NoPartsBody)),
       HttpResponse(200, "OK", JsonBody(JNull)),
       HttpResponse(200, "OK", JsonBody(NoTextBody)),
       HttpResponse(500, "Internal Server Error", JsonBody(ErrorBodyOf(UnprintableObject))) >>

\* response.ok
ResponseOk(r) == r.status >= 200 /\ r.status <= 299

\* the message of the TypeError a rejected fetch throws
FetchFailedMessage(r) == r.message

\* the white space of JSON
JsonWhiteSpace == {" ", "\t", "\n", "\r"}

\* the 0-based position of the first character of text, from pos on, that is
\* no JSON white space; Len(text) when there is none
RECURSIVE SkipJsonWhiteSpace(_, _)
SkipJsonWhiteSpace(text, pos) ==
    IF pos < Len(text) /\ SubSeq(text, pos + 1, pos + 1) \in JsonWhiteSpace
    THEN SkipJsonWhiteSpace(text, pos + 1)
    ELSE pos

\* the texts V8 quotes whole, without a token
SpecialStrings == {"[object Object]", "undefined", "Infinity", "NaN"}

\* the message of the SyntaxError response.json() rejects with, as V8 words
\* it, for a text that after its white space ends, or goes on with a
\* character that starts no JSON value (none of " - 0..9 [ { t f n), and for
\* the SpecialStrings. V8 names the offending character and quotes the text:
\* whole when it is shorter than 21 characters, else the 10 characters on
\* either side of the offending one.
JsonSyntaxErrorMessage(text) ==
    LET pos == SkipJsonWhiteSpace(text, 0)
        len == Len(text)
    IN IF pos = len THEN "Unexpected end of JSON input"
       ELSE IF text \in SpecialStrings THEN "\"" \o text \o "\" is not valid JSON"
       ELSE "Unexpected token '" \o SubSeq(text, pos + 1, pos + 1) \o "', "
            \o (IF len < 21 THEN "\"" \o text \o "\""
                ELSE IF pos < 10
                THEN "\"" \o SubSeq(text, 1, pos + 10) \o "\"..."
                ELSE IF pos < len - 10
                THEN "...\"" \o SubSeq(text, pos - 9, pos + 10) \o "\"..."
                ELSE "...\"" \o SubSeq(text, pos - 9, len) \o "\"")
            \o " is not valid JSON"

RateLimitSignal == "RATE_LIMIT"

\* the message of the error line 135 throws: the Error built of
\* errorData.error?.message || response.statusText, or the TypeError of
\* reading errorData.error or of converting the message to a string
ErrorMessage(errorData, statusText) ==
    IF Nullish(errorData) THEN TypeErrorMessage(errorData, "error")
    ELSE LET e == Get(errorData, "error")
             m == IF Nullish(e) THEN JUndef ELSE Get(e, "message")
             text == JsString(m)
         IN IF ~Truthy(m) THEN statusText
            ELSE IF text.thrown THEN text.message
            ELSE text.value.s

\* a makeRequest that takes a rejected fetch for a rate limit
MakeRequestRetryingNetwork(r) ==
    IF r.kind = "reject" THEN Thrown(RateLimitSignal)
    ELSE IF ~ResponseOk(r)
    THEN IF ~r.body.json THEN Thrown(JsonSyntaxErrorMessage(r.body.text))
         ELSE IF r.status = 429 THEN Thrown(RateLimitSignal)
         ELSE Thrown(ErrorMessage(r.body.v, r.statusText))
    ELSE IF ~r.body.json THEN Thrown(JsonSyntaxErrorMessage(r.body.text))
    ELSE Returned(r.body.v)

\* makeRequest from the moment fetch settles with r: what it returns or throws
MakeRequestSettles(r) ==
    IF r.kind = "reject" THEN Thrown(FetchFailedMessage(r))
    ELSE IF ~ResponseOk(r)
    THEN IF ~r.body.json THEN Thrown(JsonSyntaxErrorMessage(r.body.text))
         ELSE IF r.status = 429 THEN Thrown(RateLimitSignal)
         ELSE Thrown(ErrorMessage(r.body.v, r.statusText))
    ELSE IF ~r.body.json THEN Thrown(JsonSyntaxErrorMessage(r.body.text))
    ELSE Returned(r.body.v)

\* acc.k and acc[i] of a result so far: a TypeError when the value is nullish
Prop(acc, k) ==
    IF acc.thrown THEN acc
    ELSE IF Nullish(acc.value) THEN Thrown(TypeErrorMessage(acc.value, k))
    ELSE Returned(Get(acc.value, k))

At(acc, i) ==
    IF acc.thrown THEN acc
    ELSE IF Nullish(acc.value) THEN Thrown(TypeErrorMessage(acc.value, ToString(i)))
    ELSE Returned(Idx(acc.value, i))

\* data.candidates?.[0]?.content?.parts?.[0]?.text ?? "": a reading that
\* puts up with any body
ReplyTextLenient(data) ==
    LET text == Prop(At(Prop(Prop(At(Prop(Returned(data), "candidates"), 0),
                                  "content"), "parts"), 0), "text")
    IN IF text.thrown THEN Returned(JStr("")) ELSE text

\* data.candidates[0].content.parts[0].text
ReplyText(data) ==
    Prop(At(Prop(Prop(At(Prop(Returned(data), "candidates"), 0),
                      "content"), "parts"), 0), "text")

----------------------------------------------------------------------------
(* handleSend *)

\* const delay = (ms) => new Promise(resolve => setTimeout(resolve, ms))
RECURSIVE Pow2(_)
Pow2(n) == IF n = 0 THEN 1 ELSE 2 * Pow2(n - 1)

\* Math.pow(2, retryCount) * 1000
WaitTime(retryCount) == Pow2(retryCount) * 1000

ApiKeyRequiredToast ==
    Toast("API Key Required",
          "Please enter your Google AI API key to continue", "destructive")

\* `Retrying in ${waitTime/1000} seconds... (Attempt ${retryCount}/${maxRetries})`
RetryToast(waitTime, retryCount) ==
    Toast("Rate limit reached",
          "Retrying in " \o ToString(waitTime \div 1000)
          \o " seconds... (Attempt " \o ToString(retryCount) \o "/"
          \o ToString(maxRetries) \o ")",
          "default")

RateLimitExceededText == "Rate limit exceeded. Please try again later."
NoDataMessage == "Failed to get response after retries"

\* the toast of the outer catch
ErrorToast(errorMessage) ==
    Toast("Error",
          IF errorMessage = RateLimitSignal THEN RateLimitExceededText
          ELSE errorMessage,
          "destructive")

\* a loop that allows one retry more
MayRetryOnceMore(retryCount) == retryCount <= maxRetries

\* if (retryCount < maxRetries), after retryCount++
MayRetry(retryCount) == retryCount < maxRetries

\* if (!input.trim()) return;
BlankInput(text) == Trim(text) = ""

\* a handler that checks nothing
MissingCredentialNever(key) == FALSE

\* if (!apiKey)
MissingCredential(key) == key = ""

\* setMessages([userMessage]): an update that does not start from prev
OverwriteWithUserMessage(msgs, text) == <<Message("user", JStr(text))>>

\* setMessages((prev) => [...prev, userMessage])
AppendUserMessage(msgs, text) == Append(msgs, Message("user", JStr(text)))

\* the reply put in front of the conversation
PrependAssistantMessage(msgs, text) == <<Message("assistant", text)>> \o msgs

\* setMessages((prev) => [...prev, assistantMessage])
AppendAssistantMessage(msgs, text) == Append(msgs, Message("assistant", text))

\* one entry of an invocation's trace: what it did, in order
Event(ev, n, s) == [ev |-> ev, n |-> n, s |-> s]

\* how the trace names the content of an appended message: its text, or the
\* type of a content that is no string
ContentLabel(v) == IF v.t = "string" THEN v.s ELSE v.t

InFlight(s) == s.pc # "done"
NumInFlight == Cardinality({i \in DOMAIN sends : InFlight(sends[i])})

----------------------------------------------------------------------------
(* What the user and the environment supply *)

InputTexts == {" ", " q "}
ApiKeys == {"", "k1"}
File(name, text) == [name |-> name, text |-> text]
\* two documents; their texts occur in neither the prompt's template nor in
\* InputTexts
Files == {File("a.txt", "#A"), File("b.txt", "#B")}
\* the acceptedFiles of one drop
FileLists == {<<>>} \cup {<<f>> : f \in Files} \cup {<<f, g>> : f, g \in Files}

PendingFiles ==
    LET RECURSIVE sum(_)
        sum(i) == IF i = 0 THEN 0 ELSE Len(drops[i]) + sum(i - 1)
    IN sum(Len(drops))

----------------------------------------------------------------------------
(* Init: the state of the first render *)

Init ==
    /\ messages = <<>>
    /\ contexts = <<>>
    /\ selectedContext = NoContext
    /\ input = ""
    /\ isLoading = FALSE
    /\ apiKey = ""
    /\ toasts = <<>>
    /\ now = 0
    /\ sends = <<>>
    /\ drops = <<>>

----------------------------------------------------------------------------
(* handleSend, up to its first await *)

\* the invocation's record when it returns at the credential check
RejectedSend ==
    [pc |-> "done", input |-> input, apiKey |-> apiKey,
     contexts |-> contexts, selectedContext |-> selectedContext,
     retryCount |-> 0, calls |-> <<>>, resps |-> <<>>,
     log |-> <<Event("toast", 0, ApiKeyRequiredToast.description)>>,
     base |-> messages, overlap |-> NumInFlight, final |-> messages]

\* a retry counter kept outside handleSend: an invocation goes on counting
\* where the one before it stopped
StartedSendCarryingRetries ==
    LET prompt == BuildPrompt(contexts, selectedContext, input)
    IN [pc |-> "fetch", input |-> input, apiKey |-> apiKey,
        contexts |-> contexts, selectedContext |-> selectedContext,
        retryCount |-> IF sends = <<>> THEN 0 ELSE sends[Len(sends)].retryCount,
        calls |-> <<Request(apiKey, prompt)>>,
        resps |-> <<>>,
        log |-> <<Event("call", 1, prompt)>>,
        base |-> messages, overlap |-> NumInFlight, final |-> <<>>]

\* the invocation's record when it awaits its first fetch
StartedSend ==
    LET prompt == BuildPrompt(contexts, selectedContext, input)
    IN [pc |-> "fetch", input |-> input, apiKey |-> apiKey,
        contexts |-> contexts, selectedContext |-> selectedContext,
        retryCount |-> 0, calls |-> <<Request(apiKey, prompt)>>,
        resps |-> <<>>,
        log |-> <<Event("call", 1, prompt)>>,
        base |-> messages, overlap |-> NumInFlight, final |-> <<>>]

HandleSend ==
    IF BlankInput(input)
    THEN UNCHANGED vars
    ELSE /\ IF MissingCredential(apiKey)
            THEN /\ toasts' = Append(toasts, ApiKeyRequiredToast)
                 /\ sends' = Append(sends, RejectedSend)
                 /\ UNCHANGED <<messages, input, isLoading>>
            ELSE /\ messages' = AppendUserMessage(messages, input)
                 /\ input' = ""
                 /\ isLoading' = TRUE
                 /\ sends' = Append(sends, StartedSend)
                 /\ UNCHANGED toasts
         /\ UNCHANGED <<contexts, selectedContext, apiKey, now, drops>>

\* the bound of a behaviour: at most limit invocations of handleSend get past
\* its first early return
MaySend(limit) == Len(sends) < limit

\* <Button onClick={handleSend} disabled={isLoading}>
ClickSend(limit) == MaySend(limit) /\ ~isLoading /\ HandleSend

\* onKeyPress={(e) => e.key === "Enter" && handleSend()}
PressEnter(limit) == MaySend(limit) /\ HandleSend

----------------------------------------------------------------------------
(* handleSend, from a settled fetch to its next await or its end *)

\* a catch that also shows the error in the conversation
SendFailsInTranscript(i, log, retryCount, resps, errorMessage) ==
    /\ toasts' = Append(toasts, ErrorToast(errorMessage))
    /\ isLoading' = FALSE
    /\ messages' = AppendAssistantMessage(messages,
                        JStr(ErrorToast(errorMessage).description))
    /\ sends' = [sends EXCEPT ![i].pc = "done",
                              ![i].retryCount = retryCount,
                              ![i].resps = resps,
                              ![i].final = messages',
                              ![i].log = Append(log,
                                  Event("error", 0, ErrorToast(errorMessage).description))]

\* a failure path that leaves without the finally block
SendFailsStillLoading(i, log, retryCount, resps, errorMessage) ==
    /\ toasts' = Append(toasts, ErrorToast(errorMessage))
    /\ sends' = [sends EXCEPT ![i].pc = "done",
                              ![i].retryCount = retryCount,
                              ![i].resps = resps,
                              ![i].final = messages,
                              ![i].log = Append(log,
                                  Event("error", 0, ErrorToast(errorMessage).description))]
    /\ UNCHANGED <<messages, isLoading>>

\* a catch that swallows the error
SendFailsSilently(i, log, retryCount, resps, errorMessage) ==
    /\ isLoading' = FALSE
    /\ sends' = [sends EXCEPT ![i].pc = "done",
                              ![i].retryCount = retryCount,
                              ![i].resps = resps,
                              ![i].final = messages,
                              ![i].log = log]
    /\ UNCHANGED <<messages, toasts>>

\* the catch and finally of handleSend
SendFails(i, log, retryCount, resps, errorMessage) ==
    /\ toasts' = Append(toasts, ErrorToast(errorMessage))
    /\ isLoading' = FALSE
    /\ sends' = [sends EXCEPT ![i].pc = "done",
                              ![i].retryCount = retryCount,
                              ![i].resps = resps,
                              ![i].final = messages,
                              ![i].log = Append(log,
                                  Event("error", 0, ErrorToast(errorMessage).description))]
    /\ UNCHANGED messages

\* handleSend from the moment makeRequest has returned or thrown, as out
\* says, to its next await or its end; log, retryCount and resps are the
\* invocation's up to that moment
MakeRequestReturns(i, log, resps, out) ==
    LET s == sends[i]
        rateLimited == out.thrown /\ out.message = RateLimitSignal
        retryCount == IF rateLimited THEN s.retryCount + 1 ELSE s.retryCount
    IN IF rateLimited /\ MayRetry(retryCount)
       THEN \* toast, then await delay(waitTime)
            /\ toasts' = Append(toasts, RetryToast(WaitTime(retryCount), retryCount))
            /\ sends' = [sends EXCEPT
                  ![i].pc = "delay",
                  ![i].retryCount = retryCount,
                  ![i].resps = resps,
                  ![i].log = log \o
                     <<Event("notice", retryCount,
                             RetryToast(WaitTime(retryCount), retryCount).description),
                       Event("delay", WaitTime(retryCount), "")>>]
            /\ UNCHANGED <<messages, isLoading>>
       ELSE IF out.thrown
       THEN SendFails(i, log, retryCount, resps, out.message)
       ELSE IF ~Truthy(out.value)
       THEN SendFails(i, log, retryCount, resps, NoDataMessage)
       ELSE IF ReplyText(out.value).thrown
       THEN SendFails(i, log, retryCount, resps, ReplyText(out.value).message)
       ELSE /\ messages' = AppendAssistantMessage(messages, ReplyText(out.value).value)
            /\ isLoading' = FALSE
            /\ sends' = [sends EXCEPT
                  ![i].pc = "done",
                  ![i].resps = resps,
                  ![i].final = messages',
                  ![i].log = Append(log,
                      Event("append", 0, ContentLabel(ReplyText(out.value).value)))]
            /\ UNCHANGED toasts

\* await fetch(...) settles, with the answer r: a rejection throws out of
\* makeRequest; a response is next asked for its body, await response.json()
FetchSettles(i, r) ==
    /\ i \in DOMAIN sends
    /\ sends[i].pc = "fetch"
    /\ LET s == sends[i]
           resps == Append(s.resps, r)
           log == Append(s.log, Event("response", r.status, r.kind))
       IN IF r.kind = "reject"
          THEN MakeRequestReturns(i, log, resps, MakeRequestSettles(r))
          ELSE /\ sends' = [sends EXCEPT ![i].pc = "json",
                                         ![i].resps = resps,
                                         ![i].log = log]
               /\ UNCHANGED <<messages, isLoading, toasts>>
    /\ UNCHANGED <<contexts, selectedContext, input, apiKey, now, drops>>

\* await response.json() settles, at line 131 or at line 138
JsonSettles(i) ==
    /\ i \in DOMAIN sends
    /\ sends[i].pc = "json"
    /\ LET s == sends[i]
       IN MakeRequestReturns(i, s.log, s.resps,
                             MakeRequestSettles(s.resps[Len(s.resps)]))
    /\ UNCHANGED <<contexts, selectedContext, input, apiKey, now, drops>>

\* a makeRequest that reads the state of the latest render
DelayElapsesReadingState(i) ==
    /\ i \in DOMAIN sends
    /\ sends[i].pc = "delay"
    /\ LET s == sends[i]
           prompt == BuildPrompt(contexts, selectedContext, input)
       IN sends' = [sends EXCEPT
             ![i].pc = "fetch",
             ![i].calls = Append(s.calls, Request(apiKey, prompt)),
             ![i].log = Append(s.log, Event("call", Len(s.calls) + 1, prompt))]
    /\ UNCHANGED <<messages, contexts, selectedContext, input, isLoading,
                   apiKey, toasts, now, drops>>

\* delay(waitTime) resolves: continue, and makeRequest() again
DelayElapses(i) ==
    /\ i \in DOMAIN sends
    /\ sends[i].pc = "delay"
    /\ LET s == sends[i]
           prompt == BuildPrompt(s.contexts, s.selectedContext, s.input)
       IN sends' = [sends EXCEPT
             ![i].pc = "fetch",
             ![i].calls = Append(s.calls, Request(s.apiKey, prompt)),
             ![i].log = Append(s.log, Event("call", Len(s.calls) + 1, prompt))]
    /\ UNCHANGED <<messages, contexts, selectedContext, input, isLoading,
                   apiKey, toasts, now, drops>>

----------------------------------------------------------------------------
(* The other handlers *)

\* onChange={(e) => setInput(e.target.value)}
SetInput(v) ==
    /\ input' = v
    /\ UNCHANGED <<messages, contexts, selectedContext, isLoading, apiKey,
                   toasts, now, sends, drops>>

\* onChange={(e) => setApiKey(e.target.value)}
SetApiKey(k) ==
    /\ apiKey' = k
    /\ UNCHANGED <<messages, contexts, selectedContext, input, isLoading,
                   toasts, now, sends, drops>>

\* Date.now().toString()
NewId(t) == ToString(t)

\* <Select value={selectedContext} onValueChange={setSelectedContext}>
SelectItems == {NoContext} \cup {contexts[i].id : i \in DOMAIN contexts}

\* the ids a SelectItem can carry in the model
ContextIds == {NoContext} \cup {NewId(t) : t \in 0..MaxClock}

SetSelectedContext(id) ==
    /\ id \in SelectItems
    /\ selectedContext' = id
    /\ UNCHANGED <<messages, contexts, input, isLoading, apiKey, toasts, now,
                   sends, drops>>

UploadedToast == Toast("Success", "Documents uploaded successfully", "default")
UploadFailedToast == Toast("Error", "Failed to upload documents", "destructive")

\* the toasts of onDrop: every invocation that has ended has left one
UploadToasts == SelectSeq(toasts, LAMBDA t : t \in {UploadedToast, UploadFailedToast})

\* the bounds of a behaviour: the files it accepts and the drops it takes,
\* ended or awaiting file.text()
MayDrop(files) ==
    /\ Len(contexts) + PendingFiles + Len(files) <= MaxFiles
    /\ Len(UploadToasts) + Len(drops) < MaxDrops

\* onDrop up to its first await file.text(); of no file, to its end
OnDrop(files) ==
    /\ MayDrop(files)
    /\ IF files = <<>>
       THEN /\ toasts' = Append(toasts, UploadedToast)
            /\ UNCHANGED drops
       ELSE /\ drops' = Append(drops, files)
            /\ UNCHANGED toasts
    /\ UNCHANGED <<messages, contexts, selectedContext, input, isLoading,
                   apiKey, now, sends>>

RemoveAt(seq, d) == SubSeq(seq, 1, d - 1) \o SubSeq(seq, d + 1, Len(seq))

\* file.text() of the first file left of drop d resolves
FileTextResolves(d) ==
    /\ d \in DOMAIN drops
    /\ LET file == Head(drops[d])
           rest == Tail(drops[d])
       IN /\ contexts' = Append(contexts, Context(NewId(now), file.name, file.text))
          /\ IF rest = <<>>
             THEN /\ toasts' = Append(toasts, UploadedToast)
                  /\ drops' = RemoveAt(drops, d)
             ELSE /\ drops' = [drops EXCEPT ![d] = rest]
                  /\ UNCHANGED toasts
    /\ UNCHANGED <<messages, selectedContext, input, isLoading, apiKey, now, sends>>

\* file.text() of the first file left of drop d rejects
FileTextRejects(d) ==
    /\ d \in DOMAIN drops
    /\ toasts' = Append(toasts, UploadFailedToast)
    /\ drops' = RemoveAt(drops, d)
    /\ UNCHANGED <<messages, contexts, selectedContext, input, isLoading,
                   apiKey, now, sends>>

\* a millisecond passes
Tick ==
    /\ now < MaxClock
    /\ now' = now + 1
    /\ UNCHANGED <<messages, contexts, selectedContext, input, isLoading,
                   apiKey, toasts, sends, drops>>

----------------------------------------------------------------------------
(* The page: every handler of Index and every await it resumes from, the    *)
(* endpoint answering each fetch with any of Responses. MaxSends, MaxFiles, *)
(* MaxDrops and MaxClock bound a behaviour. The specifications after it     *)
(* each take some of its steps: every step of theirs is a step of NextPage. *)

\* the answers of the endpoint
Answers == {Responses[n] : n \in DOMAIN Responses}

NextPage ==
    \/ ClickSend(MaxSends)
    \/ PressEnter(MaxSends)
    \/ \E i \in 1..MaxSends : \E r \in Answers : FetchSettles(i, r)
    \/ \E i \in 1..MaxSends : JsonSettles(i)
    \/ \E i \in 1..MaxSends : DelayElapses(i)
    \/ \E v \in InputTexts : SetInput(v)
    \/ \E k \in ApiKeys : SetApiKey(k)
    \/ \E id \in ContextIds : SetSelectedContext(id)
    \/ \E files \in FileLists : OnDrop(files)
    \/ \E d \in 1..MaxDrops : FileTextResolves(d)
    \/ \E d \in 1..MaxDrops : FileTextRejects(d)
    \/ Tick

SpecPage == Init /\ [][NextPage]_vars

\* every step of the specifications below is a step of the page
StepOfPage == [][NextPage]_vars

----------------------------------------------------------------------------
(* The conversation: handleSend with the Send button, the Enter key and the *)
(* two text fields, up to MaxSends invocations that may overlap. No         *)
(* document is dropped or selected (contexts stays empty and every prompt   *)
(* is the input), and the endpoint answers each fetch with a 429, the reply *)
(* or a 500, each with a JSON body.                                         *)

ConversationAnswers ==
    { HttpResponse(429, "Too Many Requests", JsonBody(ErrorBody("quota"))),
      HttpResponse(200, "OK", JsonBody(ReplyBody("pong"))),
      HttpResponse(500, "Internal Server Error", JsonBody(ErrorBody("boom"))) }

Next ==
    \/ ClickSend(MaxSends)
    \/ PressEnter(MaxSends)
    \/ \E i \in 1..MaxSends : \E r \in ConversationAnswers : FetchSettles(i, r)
    \/ \E i \in 1..MaxSends : JsonSettles(i)
    \/ \E i \in 1..MaxSends : DelayElapses(i)
    \/ \E v \in InputTexts : SetInput(v)
    \/ \E k \in ApiKeys : SetApiKey(k)

Spec == Init /\ [][Next]_vars

----------------------------------------------------------------------------
(* Answers: handleSend with the Send button, the Enter key and the two text *)
(* fields, up to MaxAsks invocations, each fetch answered with any of       *)
(* Responses. No document is dropped or selected.                           *)

NextAnswers ==
    \/ ClickSend(MaxAsks)
    \/ PressEnter(MaxAsks)
    \/ \E i \in 1..MaxAsks : \E r \in Answers : FetchSettles(i, r)
    \/ \E i \in 1..MaxAsks : JsonSettles(i)
    \/ \E i \in 1..MaxAsks : DelayElapses(i)
    \/ \E v \in InputTexts : SetInput(v)
    \/ \E k \in ApiKeys : SetApiKey(k)

SpecAnswers == Init /\ [][NextAnswers]_vars

----------------------------------------------------------------------------
(* Progress: a question typed, with the key, and sent, when every fetch and *)
(* every response.json() settles and every timer of delay fires, so that    *)
(* the invocation awaiting it resumes; each fetch is answered with any of   *)
(* Responses. Sending clears the input field, and nothing is typed again;   *)
(* no document is dropped or selected.                                      *)

InitProgress ==
    /\ messages = <<>>
    /\ contexts = <<>>
    /\ selectedContext = NoContext
    /\ input \in {v \in InputTexts : ~BlankInput(v)}
    /\ isLoading = FALSE
    /\ apiKey \in {k \in ApiKeys : ~MissingCredential(k)}
    /\ toasts = <<>>
    /\ now = 0
    /\ sends = <<>>
    /\ drops = <<>>

NextProgress ==
    \/ ClickSend(MaxAsks)
    \/ PressEnter(MaxAsks)
    \/ \E i \in 1..MaxAsks : \E r \in Answers : FetchSettles(i, r)
    \/ \E i \in 1..MaxAsks : JsonSettles(i)
    \/ \E i \in 1..MaxAsks : DelayElapses(i)

SpecProgress ==
    /\ InitProgress
    /\ [][NextProgress]_vars
    /\ \A i \in 1..MaxAsks :
          /\ WF_vars(\E r \in Answers : FetchSettles(i, r))
          /\ WF_vars(JsonSettles(i))
          /\ WF_vars(DelayElapses(i))

----------------------------------------------------------------------------
(* Uploads: onDrop, its awaits, the clock and the Select. No question is    *)
(* asked.                                                                   *)

NextUpload ==
    \/ \E files \in FileLists : OnDrop(files)
    \/ \E d \in 1..MaxDrops : FileTextResolves(d)
    \/ \E d \in 1..MaxDrops : FileTextRejects(d)
    \/ Tick
    \/ \E id \in ContextIds : SetSelectedContext(id)

SpecUpload == Init /\ [][NextUpload]_vars

----------------------------------------------------------------------------
(* Prompts: a typed question asked of the documents the page has taken:    *)
(* documents are dropped, one file a drop, and their texts read while the   *)
(* clock advances or stands, so that contexts get ids of their own or share *)
(* one; a context is selected, and the endpoint answers each fetch with a   *)
(* 429 with a JSON body, so that an invocation makes every call it can.     *)
(* Sending clears the input field, and nothing is typed again.              *)

\* the answer of an endpoint that throttles
RetryAnswers ==
    { HttpResponse(429, "Too Many Requests", JsonBody(ErrorBody("quota"))) }

\* the bound of a behaviour of SpecPrompt and SpecRetries: the files it
\* accepts, one a drop
MayDropOne(files) ==
    /\ Len(files) = 1
    /\ Len(contexts) + Len(drops) < MaxDocuments

NextPrompt ==
    \/ ClickSend(MaxAsks)
    \/ PressEnter(MaxAsks)
    \/ \E i \in 1..MaxAsks : \E r \in RetryAnswers : FetchSettles(i, r)
    \/ \E i \in 1..MaxAsks : JsonSettles(i)
    \/ \E i \in 1..MaxAsks : DelayElapses(i)
    \/ \E id \in ContextIds : SetSelectedContext(id)
    \/ \E files \in FileLists : MayDropOne(files) /\ OnDrop(files)
    \/ \E d \in 1..MaxDrops : FileTextResolves(d)
    \/ Tick

SpecPrompt == InitProgress /\ [][NextPrompt]_vars

----------------------------------------------------------------------------
(* Retries: a typed question asked while documents are dropped, one file a *)
(* drop, their texts read, and the key and the selection edited; the        *)
(* endpoint answers each fetch with a 429 with a JSON body. Sending clears  *)
(* the input field, and nothing is typed again.                             *)

NextRetries ==
    \/ ClickSend(MaxAsks)
    \/ PressEnter(MaxAsks)
    \/ \E i \in 1..MaxAsks : \E r \in RetryAnswers : FetchSettles(i, r)
    \/ \E i \in 1..MaxAsks : JsonSettles(i)
    \/ \E i \in 1..MaxAsks : DelayElapses(i)
    \/ \E k \in ApiKeys : SetApiKey(k)
    \/ \E id \in ContextIds : SetSelectedContext(id)
    \/ \E files \in FileLists : MayDropOne(files) /\ OnDrop(files)
    \/ \E d \in 1..MaxDrops : FileTextResolves(d)

SpecRetries == InitProgress /\ [][NextRetries]_vars

----------------------------------------------------------------------------
(* Reading an invocation's record *)

\* the invocation passed both early returns: it appended its user message
Admitted(s) == s.calls # <<>>
Done(s) == s.pc = "done"
LastEvent(s) == s.log[Len(s.log)]
\* the invocation ended in the outer catch, with the toast of description d
FailedWith(s, d) == Done(s) /\ LastEvent(s) = Event("error", 0, d)
Failed(s) == Done(s) /\ LastEvent(s).ev = "error"
\* the invocation ended by appending an assistant message
Succeeded(s) == Done(s) /\ LastEvent(s).ev = "append"
EventsOf(s, ev) == SelectSeq(s.log, LAMBDA e : e.ev = ev)
\* the latest call of the invocation has been answered
Answered(s) == Admitted(s) /\ Len(s.resps) = Len(s.calls)

IsPrefix(a, b) == Len(a) <= Len(b) /\ SubSeq(b, 1, Len(a)) = a

Is429(r) == r.kind = "http" /\ r.status = 429

----------------------------------------------------------------------------
(* C1 *)

\* C1: a handleSend invoked with an input that is not blank after trimming
\* and with an empty apiKey makes no network call (its own record holds none
\* and no other invocation moves), emits the "API Key Required" toast and
\* leaves messages, input and isLoading as they were.
C1_MissingCredential ==
    [][ (Trim(input) # "" /\ apiKey = "" /\ Len(sends') > Len(sends))
        => /\ Len(sends') = Len(sends) + 1
           /\ sends'[Len(sends')].calls = <<>>
           /\ sends'[Len(sends')].pc = "done"
           /\ SubSeq(sends', 1, Len(sends)) = sends
           /\ toasts' = Append(toasts,
                 [title |-> "API Key Required",
                  description |-> "Please enter your Google AI API key to continue",
                  variant |-> "destructive"])
           /\ messages' = messages
           /\ input' = input
           /\ isLoading' = isLoading ]_vars

\* a handleSend has returned at the credential check while a send was in flight
C1_Witness ==
    \E i \in DOMAIN sends :
        /\ sends[i].calls = <<>>
        /\ Trim(sends[i].input) # ""
        /\ sends[i].apiKey = ""
        /\ sends[i].overlap > 0
        /\ isLoading
        /\ \E t \in DOMAIN toasts : toasts[t].title = "API Key Required"

----------------------------------------------------------------------------
(* C2, C3, C5: HTTP 429 *)

C2_Of(s) ==
    (Done(s) /\ Admitted(s) /\ \A k \in DOMAIN s.resps : Is429(s.resps[k]))
    => /\ Len(s.calls) = 3
       /\ FailedWith(s, "Rate limit exceeded. Please try again later.")
       /\ EventsOf(s, "append") = <<>>

\* C2: a send all of whose calls were answered 429 ends after exactly 3 calls
\* in the "Rate limit exceeded" error, with no assistant message appended.
C2_RetriesExhausted == \A i \in DOMAIN sends : C2_Of(sends[i])

\* the trace C3 asks of a send whose first k calls are answered 429: each 429
\* is followed by one notice naming the wait and the attempt, then by the wait
\* of 2^n seconds, then by the next call
C3_NoticeText ==
    << "Retrying in 2 seconds... (Attempt 1/3)",
       "Retrying in 4 seconds... (Attempt 2/3)" >>
C3_WaitMs == << 2000, 4000 >>

RECURSIVE C3_Retries(_, _)
C3_Retries(s, k) ==
    IF k = 0 THEN <<>>
    ELSE C3_Retries(s, k - 1) \o
         << Event("call", k, s.input),
            Event("response", 429, "http"),
            Event("notice", k, C3_NoticeText[k]),
            Event("delay", C3_WaitMs[k], "") >>

C3_Trace(s, k, reply) ==
    C3_Retries(s, k) \o
    << Event("call", k + 1, s.input),
       Event("response", 200, "http"),
       Event("append", 0, reply) >>

\* the answers s has had so far are those of an endpoint that answers 429 on
\* the first k calls and a well-formed 200 carrying reply on call k + 1
C3_Scenario(s, k, reply) ==
    /\ Len(s.resps) <= k + 1
    /\ \A n \in DOMAIN s.resps :
          IF n <= k THEN Is429(s.resps[n])
          ELSE /\ s.resps[n].kind = "http" /\ s.resps[n].status = 200
               /\ s.resps[n].body = [json |-> TRUE, v |-> ReplyBody(reply), text |-> ""]

C3_Of(s) ==
    \A k \in 0..2 :
        (C3_Scenario(s, k, "pong") /\ Admitted(s))
        => /\ IsPrefix(s.log, C3_Trace(s, k, "pong"))
           /\ Done(s) => /\ s.log = C3_Trace(s, k, "pong")
                         /\ Len(s.calls) = k + 1
                         /\ Len(s.final) > 0
                         /\ s.final[Len(s.final)] =
                              [role |-> "assistant",
                               content |-> [t |-> "string", s |-> "pong"]]

\* C3: for k in {0, 1, 2}, when the endpoint answers 429 on the first k calls
\* of a send and a well-formed 200 on call k + 1, the send makes exactly k + 1
\* calls and appends the reply text as one assistant message, and before retry
\* n it emits one notice "Retrying in 2^n seconds... (Attempt n/3)" and then
\* waits 2^n seconds, each wait between the n-th 429 and call n + 1.
C3_RetryThenReply == \A i \in DOMAIN sends : C3_Of(sends[i])

C5_Of(s) ==
    (Answered(s) /\ Is429(s.resps[Len(s.resps)]) /\ Len(s.calls) < 3)
    => s.pc \in {"json", "delay"}

\* C5: a send whose latest call was answered 429, whatever the body, and that
\* has made fewer than 3 calls is reading the answer or waiting to call
\* again; it has not ended.
C5_RateLimitedRetried == \A i \in DOMAIN sends : C5_Of(sends[i])

\* What holds of C2, C3 and C5 on the code: the same three statements of the
\* sends whose 429 answers all have a body response.json() can parse.
ParseableThrottling(s) ==
    \A n \in DOMAIN s.resps : Is429(s.resps[n]) => s.resps[n].body.json

RateLimitWithParseableBodies ==
    \A i \in DOMAIN sends :
        ParseableThrottling(sends[i])
        => C2_Of(sends[i]) /\ C3_Of(sends[i]) /\ C5_Of(sends[i])

----------------------------------------------------------------------------
(* C4 *)

\* the body of r carries error.message, a string that is not empty
HasProviderMessage(r) ==
    /\ r.body.json
    /\ r.body.v.t = "object"
    /\ "error" \in DOMAIN r.body.v.f
    /\ r.body.v.f.error.t = "object"
    /\ "message" \in DOMAIN r.body.v.f.error.f
    /\ r.body.v.f.error.f.message.t = "string"
    /\ r.body.v.f.error.f.message.s # ""

\* C4: a send whose first call is answered by a non-success status other than
\* 429, whatever the body, has, once the answer is read, ended after exactly
\* 1 call in the error toast
\* that shows the provider's error message if there is one, else the status
\* text.
C4_RequestFailed ==
    \A i \in DOMAIN sends :
        LET s == sends[i]
        IN (s.resps # <<>> /\ s.resps[1].kind = "http"
            /\ ~(s.resps[1].status \in 200..299) /\ s.resps[1].status # 429
            /\ ~(Len(s.resps) = 1 /\ s.pc = "json"))
           => /\ Done(s)
              /\ Len(s.calls) = 1
              /\ FailedWith(s, IF HasProviderMessage(s.resps[1])
                               THEN s.resps[1].body.v.f.error.f.message.s
                               ELSE s.resps[1].statusText)

----------------------------------------------------------------------------
(* C6, C7, C8: the transcript and the sends in flight *)

\* C6 as claimed: when a send ends in the error toast, the transcript is the
\* transcript handleSend was invoked with.
C6_TranscriptAsSubmitted ==
    \A i \in DOMAIN sends :
        (Admitted(sends[i]) /\ Failed(sends[i]))
        => sends[i].final = sends[i].base

\* C6 as amended: the step in which a send ends in the error toast leaves the
\* transcript as it was, and the transcript it ends with is the transcript it
\* was invoked with, then its own user message, appended at submit with the
\* input as typed, then nothing of its own: it has appended no assistant
\* message.
C6_FailureAddsNothing ==
    /\ [](\A i \in DOMAIN sends :
            (Admitted(sends[i]) /\ Failed(sends[i]))
            => /\ IsPrefix(Append(sends[i].base,
                                  [role |-> "user",
                                   content |-> [t |-> "string", s |-> sends[i].input]]),
                           sends[i].final)
               /\ EventsOf(sends[i], "append") = <<>>)
    /\ [][\A i \in DOMAIN sends :
            (~Done(sends[i]) /\ Failed(sends'[i]))
            => /\ messages' = messages
               /\ sends'[i].final = messages]_vars

\* a send has ended in the error toast after another send, started while it
\* was in flight, appended its user message
C6_Witness ==
    \E i \in DOMAIN sends :
        /\ Admitted(sends[i])
        /\ Failed(sends[i])
        /\ Len(sends[i].final) > Len(sends[i].base) + 1

StrictlyAlternates(msgs) ==
    /\ msgs # <<>> => msgs[1].role = "user"
    /\ \A n \in 1..(Len(msgs) - 1) : msgs[n].role # msgs[n + 1].role

\* C7 as claimed, of the behaviours in which no handleSend was invoked while
\* a send was in flight: the transcript starts with a user message and no two
\* adjacent entries have the same role.
C7_StrictlyAlternates ==
    (\A i \in DOMAIN sends : sends[i].overlap = 0)
    => StrictlyAlternates(messages)

CountRole(msgs, role) == Len(SelectSeq(msgs, LAMBDA m : m.role = role))

\* C7 as amended: every prefix of the transcript holds at least as many user
\* messages as assistant messages, so the transcript starts with a user
\* message and every assistant message has a user message of its own before
\* it; two user messages are adjacent after a send that failed.
C7_RepliesFollowQuestions ==
    \A n \in 1..Len(messages) :
        CountRole(SubSeq(messages, 1, n), "assistant")
            <= CountRole(SubSeq(messages, 1, n), "user")

\* two user messages are adjacent and both have been answered
C7_Witness ==
    /\ Len(messages) = 4
    /\ messages[1].role = "user"
    /\ messages[2].role = "user"
    /\ messages[3].role = "assistant"
    /\ messages[4].role = "assistant"

\* C8: at most one invocation of handleSend is between its setIsLoading(true)
\* and its finally block.
C8_OneSendInFlight == NumInFlight <= 1

----------------------------------------------------------------------------
(* C9 *)

\* C9: no two contexts of the collection share an id.
C9_UniqueIds ==
    \A i, j \in DOMAIN contexts :
        i # j => contexts[i].id # contexts[j].id

----------------------------------------------------------------------------
(* C10 *)

Contains(str, sub) ==
    \E i \in 0..(Len(str) - Len(sub)) : SubSeq(str, i + 1, i + Len(sub)) = sub

RestrictiveInstruction ==
    "Use ONLY the following context to answer the question. If the question cannot be answered using the context, say \"I cannot answer this question based on the provided context.\""

\* prompt is the prompt C10 asks for: with a context the id identifies (the
\* first of the collection with that id), a text that holds the context's
\* content, the restrictive instruction and the input, and the content of no
\* context with another text; else the input itself
C10_PromptFor(ctxs, sel, text, prompt) ==
    LET matching == {j \in DOMAIN ctxs : ctxs[j].id = sel}
    IN IF sel # "no-context" /\ matching # {}
       THEN LET first == CHOOSE j \in matching : \A m \in matching : j <= m
            IN /\ Contains(prompt, ctxs[first].content)
               /\ Contains(prompt, RestrictiveInstruction)
               /\ Contains(prompt, text)
               /\ prompt # text
               /\ \A j \in DOMAIN ctxs :
                     Contains(prompt, ctxs[j].content)
                     => ctxs[j].content = ctxs[first].content
       ELSE prompt = text

\* the ids C10 is checked of: the sentinel, the ids in use and a stale one
C10_Ids == {"no-context", "0", "1", "7"}

\* C10: every call of every send transmits the prompt C10 asks for, of the
\* input, the contexts and the selected id the send was submitted with; and
\* makeRequest builds that prompt of every selected id, the sentinel and an
\* id no context has included.
C10_Prompt ==
    /\ \A i \in DOMAIN sends : \A k \in DOMAIN sends[i].calls :
          C10_PromptFor(sends[i].contexts, sends[i].selectedContext,
                        sends[i].input, sends[i].calls[k].text)
    /\ \A sel \in C10_Ids : \A text \in InputTexts :
          C10_PromptFor(contexts, sel, text, BuildPrompt(contexts, sel, text))

\* two contexts with different texts share the id "0", and a send asked of
\* that id has called twice with the text of the first of them and without
\* the text of the second; the selection has changed since
C10_Witness ==
    \E i \in DOMAIN sends :
        /\ sends[i].selectedContext = "0"
        /\ Len(sends[i].contexts) = 2
        /\ sends[i].contexts[1].id = "0"
        /\ sends[i].contexts[2].id = "0"
        /\ sends[i].contexts[1].content # sends[i].contexts[2].content
        /\ Len(sends[i].calls) = 2
        /\ Contains(sends[i].calls[2].text, sends[i].contexts[1].content)
        /\ ~Contains(sends[i].calls[2].text, sends[i].contexts[2].content)
        /\ selectedContext = "no-context"

----------------------------------------------------------------------------
(* C11 *)

DestructiveToasts == SelectSeq(toasts, LAMBDA t : t.variant = "destructive")

\* C11: a send that passed the preconditions has, once ended, either appended
\* one assistant message and shown no destructive toast, or shown one
\* destructive toast and appended no assistant message, and before its end
\* neither; the transcript holds one assistant message for each send that
\* succeeded and the toasts hold one destructive "Error" for each that failed.
C11_OneOutcome ==
    /\ \A i \in DOMAIN sends :
          LET s == sends[i]
              appends == Len(EventsOf(s, "append"))
              errors == Len(EventsOf(s, "error"))
          IN Admitted(s)
             => /\ appends + errors <= 1
                /\ Done(s) <=> appends + errors = 1
    /\ CountRole(messages, "assistant")
          = Cardinality({i \in DOMAIN sends :
                            Admitted(sends[i]) /\ Succeeded(sends[i])})
    /\ Len(SelectSeq(DestructiveToasts, LAMBDA t : t.title = "Error"))
          = Cardinality({i \in DOMAIN sends :
                            Admitted(sends[i]) /\ Failed(sends[i])})

\* a send has failed after two retry notices: of its three toasts one is
\* destructive
C11_Witness ==
    \E i \in DOMAIN sends :
        /\ Failed(sends[i])
        /\ Len(EventsOf(sends[i], "notice")) = 2
        /\ Len(DestructiveToasts) = 1
        /\ Len(toasts) = 3
        /\ CountRole(messages, "assistant") = 0

----------------------------------------------------------------------------
(* C12 *)

\* v has no candidates, or none in candidates, or a first candidate whose
\* content has no parts
C12_LacksReply(v) ==
    \/ v.t = "object" /\ "candidates" \notin DOMAIN v.f
    \/ v.t = "object" /\ "candidates" \in DOMAIN v.f
       /\ v.f.candidates.t = "array" /\ v.f.candidates.a = <<>>
    \/ v.t = "object" /\ "candidates" \in DOMAIN v.f
       /\ v.f.candidates.t = "array" /\ v.f.candidates.a # <<>>
       /\ LET c == v.f.candidates.a[1]
          IN /\ c.t = "object"
             /\ "content" \in DOMAIN c.f
             /\ c.f.content.t = "object"
             /\ "parts" \notin DOMAIN c.f.content.f

\* C12: a send whose first call is answered HTTP 200 with a JSON body that
\* has no candidates, an empty candidates or a first candidate without parts
\* has, once the body is read, ended after exactly 1 call in the error toast, with no retry notice
\* and no assistant message appended.
C12_MalformedResponse ==
    \A i \in DOMAIN sends :
        LET s == sends[i]
        IN (s.resps # <<>> /\ s.resps[1].kind = "http" /\ s.resps[1].status = 200
            /\ s.resps[1].body.json /\ C12_LacksReply(s.resps[1].body.v)
            /\ s.pc # "json")
           => /\ Failed(s)
              /\ Len(s.calls) = 1
              /\ s.retryCount = 0
              /\ EventsOf(s, "notice") = <<>>
              /\ EventsOf(s, "append") = <<>>
              /\ \E t \in DOMAIN toasts :
                    /\ toasts[t].variant = "destructive"
                    /\ toasts[t].description = LastEvent(s).s

\* a send answered with a first candidate without parts has failed
C12_Witness ==
    \E i \in DOMAIN sends :
        /\ Failed(sends[i])
        /\ sends[i].resps[1].status = 200
        /\ sends[i].resps[1].body.json
        /\ sends[i].resps[1].body.v.t = "object"
        /\ "candidates" \in DOMAIN sends[i].resps[1].body.v.f
        /\ sends[i].resps[1].body.v.f.candidates.a # <<>>
        /\ LastEvent(sends[i]).s = "Cannot read properties of undefined (reading '0')"

----------------------------------------------------------------------------
(* C13 *)

\* C13: whatever the endpoint answers, a send that passed the preconditions
\* has made at least 1 and at most 3 calls.
C13_CallsBounded ==
    \A i \in DOMAIN sends :
        Admitted(sends[i])
        => /\ Len(sends[i].calls) >= 1
           /\ Len(sends[i].calls) <= 3
           /\ Len(sends[i].resps) <= Len(sends[i].calls)

\* a send has been answered a third time by an error whose message is
\* "RATE_LIMIT", after a 429
C13_Witness ==
    \E i \in DOMAIN sends :
        /\ Done(sends[i])
        /\ Len(sends[i].calls) = 3
        /\ Is429(sends[i].resps[1])
        /\ sends[i].resps[3].status = 500

----------------------------------------------------------------------------
(* C14 *)

C14_SameSubmission(s, t) ==
    /\ s.input = t.input
    /\ s.apiKey = t.apiKey
    /\ s.contexts = t.contexts
    /\ s.selectedContext = t.selectedContext

\* the answers of one deterministic endpoint: call k of s and call k of t
\* were answered alike
C14_SameEndpoint(s, t) ==
    \A k \in DOMAIN s.resps \cap DOMAIN t.resps : s.resps[k] = t.resps[k]

\* C14: two sends submitted with the same input, selected context, contexts
\* and credential, answered by the same deterministic endpoint, that have
\* both ended have made the same number of calls,
\* counted the same retries and left the same trace: the same answers, the
\* same notices and the same outcome with the same text.
C14_SameInputsSameOutcome ==
    \A i, j \in DOMAIN sends :
        LET s == sends[i]
            t == sends[j]
        IN (Admitted(s) /\ Admitted(t) /\ Done(s) /\ Done(t)
            /\ C14_SameSubmission(s, t) /\ C14_SameEndpoint(s, t))
           => /\ Len(s.calls) = Len(t.calls)
              /\ s.calls = t.calls
              /\ s.retryCount = t.retryCount
              /\ s.resps = t.resps
              /\ s.log = t.log

\* a second send has ended as the first did, each after two retries
C14_Witness ==
    /\ Len(sends) = 2
    /\ C14_SameSubmission(sends[1], sends[2])
    /\ C14_SameEndpoint(sends[1], sends[2])
    /\ Done(sends[1]) /\ Done(sends[2])
    /\ sends[1].retryCount = 2
    /\ Succeeded(sends[2])
    /\ sends[2].overlap = 0

----------------------------------------------------------------------------
(* C15 *)

\* C15: when every call returns or fails and every wait elapses, a send that
\* passed the preconditions ends, in the assistant append or in the error
\* toast, and the step in which it ends leaves isLoading false.
C15_Terminates ==
    /\ \A i \in 1..MaxAsks :
          (i \in DOMAIN sends /\ Admitted(sends[i]))
          ~> (i \in DOMAIN sends
              /\ (Succeeded(sends[i]) \/ Failed(sends[i])))
    /\ [][\A i \in DOMAIN sends :
            (~Done(sends[i]) /\ Done(sends'[i])) => ~isLoading']_vars

\* a send has ended in the error toast after its third call, and isLoading is
\* false
C15_Witness ==
    \E i \in DOMAIN sends :
        /\ Failed(sends[i])
        /\ Len(sends[i].calls) = 3
        /\ ~isLoading

----------------------------------------------------------------------------
(* C16 *)

\* C16: every step leaves the transcript a prefix of the transcript it makes;
\* and in every state, sends overlapping or not, the user message of every
\* send that passed the preconditions and the reply of every send that
\* succeeded stand in the transcript where the send put them, and the
\* transcript holds nothing else.
C16_AppendOnly ==
    /\ [][IsPrefix(messages, messages')]_vars
    /\ [](\A i \in DOMAIN sends :
            LET s == sends[i]
            IN Admitted(s)
               => /\ Len(messages) > Len(s.base)
                  /\ messages[Len(s.base) + 1]
                       = [role |-> "user",
                          content |-> [t |-> "string", s |-> s.input]]
                  /\ Succeeded(s)
                     => /\ Len(s.final) <= Len(messages)
                        /\ messages[Len(s.final)]
                             = [role |-> "assistant",
                                content |-> [t |-> "string", s |-> LastEvent(s).s]])
    /\ [](Len(messages)
            = Cardinality({i \in DOMAIN sends : Admitted(sends[i])})
              + Cardinality({i \in DOMAIN sends :
                                Admitted(sends[i]) /\ Succeeded(sends[i])}))

\* a send submitted while another was in flight has succeeded, and so has the
\* other, after it
C16_Witness ==
    /\ Len(sends) = 2
    /\ sends[2].overlap = 1
    /\ Succeeded(sends[1]) /\ Succeeded(sends[2])
    /\ Len(sends[2].final) = 3
    /\ Len(sends[1].final) = 4

----------------------------------------------------------------------------
(* C17 *)

\* C17: a send whose first fetch rejects has ended after exactly 1 call, with
\* no retry notice and no wait, in the error toast that shows the message of
\* the rejection, as the toast of a failed request shows the message of its
\* error; and no assistant message was appended.
C17_NetworkFailure ==
    \A i \in DOMAIN sends :
        LET s == sends[i]
        IN (s.resps # <<>> /\ s.resps[1].kind = "reject")
           => /\ Len(s.calls) = 1
              /\ s.retryCount = 0
              /\ EventsOf(s, "notice") = <<>>
              /\ EventsOf(s, "delay") = <<>>
              /\ EventsOf(s, "append") = <<>>
              /\ FailedWith(s, s.resps[1].message)
              /\ \E t \in DOMAIN toasts :
                    toasts[t] = [title |-> "Error",
                                 description |-> s.resps[1].message,
                                 variant |-> "destructive"]

\* a send whose fetch rejected has ended in the error toast
C17_Witness ==
    \E i \in DOMAIN sends :
        /\ sends[i].resps # <<>>
        /\ sends[i].resps[1].kind = "reject"
        /\ Failed(sends[i])
        /\ ~isLoading
        /\ toasts # <<>>

----------------------------------------------------------------------------
(* C18 *)

\* C18: while a send is between its setIsLoading(true) and its finally
\* block, isLoading is true.
C18_BusyWhileInFlight == NumInFlight > 0 => isLoading

\* What holds of C18 on the code: isLoading is true while a send is in flight
\* in the behaviours in which no handleSend was invoked while a send was in
\* flight.
BusyWithoutOverlap ==
    (\A i \in DOMAIN sends : sends[i].overlap = 0) => C18_BusyWhileInFlight

----------------------------------------------------------------------------
(* C19 *)

\* C19: the first call of a send transmits the prompt built of the input,
\* the contexts and the selected id of the state it is submitted in, with the
\* key of that state, and every later call of the send transmits what its
\* first did, whatever has been typed, selected or uploaded since.
C19_AttemptsAlike ==
    /\ [][(Len(sends') > Len(sends) /\ sends'[Len(sends')].calls # <<>>)
          => sends'[Len(sends')].calls =
               << [key |-> apiKey,
                   text |-> BuildPrompt(contexts, selectedContext, input)] >>]_vars
    /\ [](\A i \in DOMAIN sends : \A k \in DOMAIN sends[i].calls :
            sends[i].calls[k] = sends[i].calls[1])

\* a send asked of an uploaded document is calling a third time after the
\* input, the key, the selection and the contexts have all changed
C19_Witness ==
    \E i \in DOMAIN sends :
        /\ Len(sends[i].calls) = 3
        /\ sends[i].selectedContext # "no-context"
        /\ input # sends[i].input
        /\ apiKey # sends[i].apiKey
        /\ selectedContext # sends[i].selectedContext
        /\ contexts # sends[i].contexts

====
